---- MODULE Spec2Model ----
(***************************************************************************)
(* Caching gateway of the risk API (app/yfinance_service.py).              *)
(*                                                                         *)
(* Strings are sequences of one-character strings, so that upper(),        *)
(* lower(), len(), join() and the per-character format check are computed  *)
(* and not assumed.  The cache is the external key-value store with        *)
(* per-entry expiry; the provider (yfinance) is an input of every call.    *)
(***************************************************************************)
EXTENDS Integers, Sequences, FiniteSets, TLC

VARIABLES
    now,      \* wall clock, in seconds
    cache,    \* the key-value store: key -> [value, expiry]
    last,     \* record of the most recent completed call (observation)
    fetched,  \* history: normalized request -> last provider-derived outcome
    ticked,   \* TRUE when the clock moved since the last call
    ncalls,   \* number of calls (and foreign writes) so far
    procs     \* concurrent callers: position and locals of each coroutine

vars == <<now, cache, last, fetched, ticked, ncalls, procs>>

(***************************************************************************)
(* Bounds of the exploration.                                              *)
(***************************************************************************)
MaxCalls == 2
NumProcs == 2

(***************************************************************************)
(* Program constants.                                                      *)
(***************************************************************************)
TTL_ticker_info == 300
TTL_historical == 600
TTL_search == 1800
TTL_validation == 3600
TTL_validation_negative == 60
TTL_negative == 300
MaxTickerLen == 10
HTTP_400 == 400
HTTP_404 == 404
HTTP_500 == 500
HTTP_503 == 503

(***************************************************************************)
(* Characters and strings.                                                 *)
(***************************************************************************)
LowerLetters == {"a", "b", "m"}
UpperLetters == {"A", "B", "M"}
Digits == {"1", "6"}

isalnum(c) == c \in LowerLetters \cup UpperLetters \cup Digits

UpperChar(c) ==
    CASE c = "a" -> "A"
      [] c = "b" -> "B"
      [] c = "m" -> "M"
      [] OTHER -> c

LowerChar(c) ==
    CASE c = "A" -> "a"
      [] c = "B" -> "b"
      [] c = "M" -> "m"
      [] OTHER -> c

upper(s) == [i \in 1..Len(s) |-> UpperChar(s[i])]
lower(s) == [i \in 1..Len(s) |-> LowerChar(s[i])]

\* str(True) / str(False) as produced by an f-string
BoolStr(b) == IF b THEN <<"T", "r", "u", "e">> ELSE <<"F", "a", "l", "s", "e">>

(***************************************************************************)
(* JSON-like values held by the cache and returned by the resolvers.       *)
(* Every value is a record [t, b, s, x]: t is the Python type.             *)
(***************************************************************************)
None == [t |-> "none", b |-> FALSE, n |-> 0, s |-> <<>>, x |-> <<>>]
Bool(v) == [t |-> "bool", b |-> v, n |-> 0, s |-> <<>>, x |-> <<>>]
Num(v) == [t |-> "num", b |-> FALSE, n |-> v, s |-> <<>>, x |-> <<>>]
Str(v) == [t |-> "str", b |-> FALSE, n |-> 0, s |-> v, x |-> <<>>]
ERROR == Str(<<"E", "R", "R", "O", "R">>)

\* Python truthiness of a value
Truthy(v) ==
    CASE v.t = "none" -> FALSE
      [] v.t = "bool" -> v.b
      [] v.t = "num" -> v.n # 0
      [] v.t = "str" -> v.s # <<>>
      [] v.t = "list" -> v.x # <<>>
      [] v.t = "dict" -> DOMAIN v.x # {}
      [] OTHER -> TRUE

(***************************************************************************)
(* CacheStore adapter (app/redis_service.py): get / set with expiry.       *)
(* An entry written at time t with expiry e is served while now < t + e.   *)
(* A failing store answers "absent" to get and drops the set.              *)
(***************************************************************************)
Alive(c, key, t) == key \in DOMAIN c /\ t < c[key].expiry

get_cached_data(c, key, t, up) ==
    IF up /\ Alive(c, key, t) THEN c[key].value ELSE None

set_cached_data(c, w, t, up) ==
    IF up
    THEN [k \in DOMAIN c \cup {w.key} |->
            IF k = w.key THEN [value |-> w.value, expiry |-> t + w.expiry]
            ELSE c[k]]
    ELSE c

RECURSIVE ApplySets(_, _, _, _)
ApplySets(c, ws, t, up) ==
    IF ws = <<>> THEN c
    ELSE ApplySets(set_cached_data(c, Head(ws), t, up), Tail(ws), t, up)

Expire(c, t) == [k \in {j \in DOMAIN c : t < c[j].expiry} |-> c[k]]

SetCall(key, value, expiry) == [key |-> key, value |-> value, expiry |-> expiry]

(***************************************************************************)
(* Outcome of a call: what the caller observes.                            *)
(***************************************************************************)
Returns(kind, result, sets, provider) ==
    [out |-> kind, status |-> 0, result |-> result,
     gets |-> 1, sets |-> sets, provider |-> provider]

Raises(status, gets, sets, provider) ==
    [out |-> "HTTPException", status |-> status, result |-> None,
     gets |-> gets, sets |-> sets, provider |-> provider]

(***************************************************************************)
(* validate_ticker                                                         *)
(***************************************************************************)
S_ticker_validation ==
    <<"t", "i", "c", "k", "e", "r", "_", "v", "a", "l", "i", "d", "a", "t",
      "i", "o", "n", ":">>

ValidFormat(ticker) ==
    \A i \in 1..Len(ticker) :
        isalnum(ticker[i]) \/ ticker[i] = "." \/ ticker[i] = "^"

\* variant: the key is built from the symbol as given
validation_key_as_given(ticker) == S_ticker_validation \o ticker

validation_key(ticker) == S_ticker_validation \o upper(ticker)

\* variant: the length check is missing
validate_guard_no_length(ticker) ==
    IF ticker = <<>> THEN HTTP_400
    ELSE IF ~ValidFormat(ticker) THEN HTTP_400
    ELSE 0

\* 0 when the symbol passes the format checks, else the HTTP status raised
validate_guard(ticker) ==
    IF ticker = <<>> THEN HTTP_400
    ELSE IF Len(ticker) > MaxTickerLen THEN HTTP_400
    ELSE IF ~ValidFormat(ticker) THEN HTTP_400
    ELSE 0

\* info: the provider's answer, [raised, d] with d the info mapping
is_valid_info(info) ==
    /\ DOMAIN info.d # {}
    /\ "regularMarketPrice" \in DOMAIN info.d
    /\ info.d["regularMarketPrice"].t # "none"

\* variant: the 404 of an invalid ticker leaves the handler without passing
\* through the except clause
validation_writes_single_negative(cache_key, info) ==
    IF info.raised
    THEN <<SetCall(cache_key, Bool(FALSE), TTL_validation_negative)>>
    ELSE <<SetCall(cache_key, Bool(is_valid_info(info)), TTL_validation)>>

\* the cache writes of a miss, in program order
validation_writes(cache_key, info) ==
    LET negative == SetCall(cache_key, Bool(FALSE), TTL_validation_negative)
    IN  IF info.raised THEN <<negative>>
        ELSE IF is_valid_info(info)
        THEN <<SetCall(cache_key, Bool(TRUE), TTL_validation)>>
        \* the 404 raised inside the try block is caught by the handler's
        \* own except clause, which writes the negative entry again
        ELSE <<SetCall(cache_key, Bool(FALSE), TTL_validation), negative>>

validate_ticker(ticker, cached, info) ==
    LET cache_key == validation_key(ticker)
    IN  IF validate_guard(ticker) # 0
        THEN Raises(validate_guard(ticker), 0, <<>>, 0)
        ELSE IF cached.t # "none"
        THEN IF ~Truthy(cached)
             THEN Raises(HTTP_404, 1, <<>>, 0)
             ELSE Returns("True", Bool(TRUE), <<>>, 0)
        ELSE IF ~info.raised /\ is_valid_info(info)
        THEN Returns("True", Bool(TRUE), validation_writes(cache_key, info), 1)
        ELSE Raises(HTTP_404, 1, validation_writes(cache_key, info), 1)

(***************************************************************************)
(* Tables (pandas DataFrame): a chronological index, a column list and the *)
(* rows of values.  A timestamp is a day of January 2024 with an optional  *)
(* UTC offset; isoformat() and pd.to_datetime() convert it to and from its *)
(* ISO-8601 text.                                                          *)
(***************************************************************************)
List(v) == [t |-> "list", b |-> FALSE, n |-> 0, s |-> <<>>, x |-> v]
Dict(v) == [t |-> "dict", b |-> FALSE, n |-> 0, s |-> <<>>, x |-> v]
Frame(v) == [t |-> "frame", b |-> FALSE, n |-> 0, s |-> <<>>, x |-> v]

Table(index, columns, data) ==
    [index |-> index, columns |-> columns, data |-> data]

EmptyTable == Table(<<>>, <<>>, <<>>)

\* DataFrame.empty: no rows or no columns
IsEmpty(tbl) == tbl.index = <<>> \/ tbl.columns = <<>>

Timestamp(day, tz) == [day |-> day, tz |-> tz]

DigitChar(d) ==
    CASE d = 0 -> "0" [] d = 1 -> "1" [] d = 2 -> "2" [] d = 3 -> "3"
      [] d = 4 -> "4" [] d = 5 -> "5" [] d = 6 -> "6" [] d = 7 -> "7"
      [] d = 8 -> "8" [] d = 9 -> "9"

DigitValue(c) == CHOOSE d \in 0..9 : DigitChar(d) = c

isoformat(ts) ==
    Str(<<"2", "0", "2", "4", "-", "0", "1", "-",
          DigitChar(ts.day \div 10), DigitChar(ts.day % 10),
          "T", "0", "0", ":", "0", "0", ":", "0", "0">> \o ts.tz)

to_datetime(v) ==
    Timestamp(10 * DigitValue(v.s[9]) + DigitValue(v.s[10]),
              SubSeq(v.s, 20, Len(v.s)))

Column(tbl, j) == [i \in 1..Len(tbl.data) |-> tbl.data[i][j]]

\* DataFrame.to_dict('list'): column name -> list of the column's values
to_dict_list(tbl) ==
    [c \in {tbl.columns[j] : j \in 1..Len(tbl.columns)} |->
        List(Column(tbl, CHOOSE j \in 1..Len(tbl.columns) :
                            /\ tbl.columns[j] = c
                            /\ \A k \in j + 1..Len(tbl.columns) :
                                  tbl.columns[k] # c))]

\* pd.DataFrame(mapping): a mapping that mixes list values with dict values
\* is refused (ValueError: Mixing dicts with non-Series may lead to
\* ambiguous ordering); a mapping of equal-length lists becomes one column
\* per key over a default index.
DataFrameRefuses(d) ==
    \/ /\ \E k \in DOMAIN d : d[k].t = "list"
       /\ \E k \in DOMAIN d : d[k].t = "dict"
    \/ \E j, k \in DOMAIN d :
          d[j].t = "list" /\ d[k].t = "list" /\ Len(d[j].x) # Len(d[k].x)

RECURSIVE KeyList(_)
KeyList(keys) ==
    IF keys = {} THEN <<>>
    ELSE LET k == CHOOSE e \in keys : TRUE IN <<k>> \o KeyList(keys \ {k})

DataFrameOf(d) ==
    LET cols == KeyList(DOMAIN d)
        rows == IF cols = <<>> THEN 0 ELSE Len(d[cols[1]].x)
    IN  Table([i \in 1..rows |-> i - 1], cols,
              [i \in 1..rows |-> [j \in 1..Len(cols) |-> d[cols[j]].x[i]]])

(***************************************************************************)
(* get_historical_data                                                     *)
(***************************************************************************)
S_historical ==
    <<"h", "i", "s", "t", "o", "r", "i", "c", "a", "l", ":">>

historical_key(ticker, period, auto_adjust) ==
    S_historical \o upper(ticker) \o <<":">> \o period \o <<":">>
        \o BoolStr(auto_adjust)

\* the serialized form written on a successful miss
historical_cache_data(hist_data) ==
    Dict([k \in {"index", "data"} |->
            IF k = "index"
            THEN List([i \in 1..Len(hist_data.index) |->
                         isoformat(hist_data.index[i])])
            ELSE Dict(to_dict_list(hist_data))])

\* variant: a provider failure or an empty answer returns None without
\* writing the marker
get_historical_data_unmarked(ticker, period, auto_adjust, cached, hist) ==
    LET cache_key == historical_key(ticker, period, auto_adjust)
    IN  IF cached.t # "none"
        THEN IF cached = ERROR
             THEN Returns("None", None, <<>>, 0)
             ELSE IF DataFrameRefuses(cached.x)
             THEN [out |-> "ValueError", status |-> HTTP_500, result |-> None,
                   gets |-> 1, sets |-> <<>>, provider |-> 0]
             ELSE Returns("DataFrame", Frame(DataFrameOf(cached.x)), <<>>, 0)
        ELSE IF hist.raised \/ IsEmpty(hist.tbl)
        THEN Returns("None", None, <<>>, 1)
        ELSE Returns("DataFrame", Frame(hist.tbl),
                     <<SetCall(cache_key, historical_cache_data(hist.tbl),
                               TTL_historical)>>, 1)

\* hist: the provider's answer, [raised, tbl]
get_historical_data(ticker, period, auto_adjust, cached, hist) ==
    LET cache_key == historical_key(ticker, period, auto_adjust)
        negative == SetCall(cache_key, ERROR, TTL_negative)
    IN  IF cached.t # "none"
        THEN IF cached = ERROR
             THEN Returns("None", None, <<>>, 0)
             \* pd.DataFrame(cached_data) is outside any try block
             ELSE IF DataFrameRefuses(cached.x)
             THEN [out |-> "ValueError", status |-> HTTP_500, result |-> None,
                   gets |-> 1, sets |-> <<>>, provider |-> 0]
             ELSE Returns("DataFrame", Frame(DataFrameOf(cached.x)), <<>>, 0)
        ELSE IF hist.raised
        THEN Returns("None", None, <<negative>>, 1)
        ELSE IF IsEmpty(hist.tbl)
        THEN Returns("None", None, <<negative>>, 1)
        ELSE Returns("DataFrame", Frame(hist.tbl),
                     <<SetCall(cache_key, historical_cache_data(hist.tbl),
                               TTL_historical)>>, 1)

(***************************************************************************)
(* get_bulk_historical_data                                                *)
(***************************************************************************)
S_bulk_historical ==
    <<"b", "u", "l", "k", "_", "h", "i", "s", "t", "o", "r", "i", "c", "a",
      "l", ":">>

\* code point order of the characters in use
Ord(c) ==
    CASE c = " " -> 32 [] c = "-" -> 45 [] c = "." -> 46
      [] c = "1" -> 49 [] c = "6" -> 54 [] c = ":" -> 58
      [] c = "A" -> 65 [] c = "B" -> 66 [] c = "M" -> 77
      [] c = "^" -> 94
      [] c = "a" -> 97 [] c = "b" -> 98 [] c = "m" -> 109 [] c = "o" -> 111
      [] c = "y" -> 121

\* str.__lt__: lexicographic comparison by code point
RECURSIVE StrLess(_, _)
StrLess(a, b) ==
    IF b = <<>> THEN FALSE
    ELSE IF a = <<>> THEN TRUE
    ELSE IF Ord(Head(a)) # Ord(Head(b)) THEN Ord(Head(a)) < Ord(Head(b))
    ELSE StrLess(Tail(a), Tail(b))

RECURSIVE Insert(_, _)
Insert(e, xs) ==
    IF xs = <<>> THEN <<e>>
    ELSE IF StrLess(e, Head(xs)) THEN <<e>> \o xs
    ELSE <<Head(xs)>> \o Insert(e, Tail(xs))

RECURSIVE sorted(_)
sorted(xs) ==
    IF xs = <<>> THEN <<>> ELSE Insert(xs[Len(xs)], sorted(SubSeq(xs, 1, Len(xs) - 1)))

RECURSIVE join(_, _)
join(sep, xs) ==
    IF xs = <<>> THEN <<>>
    ELSE IF Len(xs) = 1 THEN xs[1]
    ELSE xs[1] \o sep \o join(sep, Tail(xs))

\* variant: the symbols are joined in request order
bulk_key_request_order(tickers, period) ==
    S_bulk_historical \o join(<<":">>, tickers) \o <<":">> \o period

bulk_key(tickers, period) ==
    S_bulk_historical \o join(<<":">>, sorted(tickers)) \o <<":">> \o period

\* the serialized form written on a successful miss
bulk_cache_data(hist_data) ==
    Dict([k \in {"index", "columns", "data"} |->
            CASE k = "index" ->
                   List([i \in 1..Len(hist_data.index) |->
                           isoformat(hist_data.index[i])])
              [] k = "columns" ->
                   List([j \in 1..Len(hist_data.columns) |->
                           List([l \in 1..Len(hist_data.columns[j]) |->
                                   Str(hist_data.columns[j][l])])])
              [] k = "data" ->
                   List([i \in 1..Len(hist_data.data) |->
                           List(hist_data.data[i])])])

\* a missing cell (float NaN)
NaN == [t |-> "nan", b |-> FALSE, n |-> 0, s |-> <<>>, x |-> <<>>]

\* widest row of a list of lists
RECURSIVE Width(_)
Width(rows) ==
    IF rows = <<>> THEN 0
    ELSE LET w == Width(Tail(rows))
         IN  IF Len(Head(rows).x) > w THEN Len(Head(rows).x) ELSE w

\* what makes the try block of _reconstruct_bulk_dataframe raise: a value
\* that cannot be subscripted, a missing key, or a DataFrame constructor
\* that refuses the shapes.  The constructor pads short rows of a ragged
\* list of lists with NaN up to the widest row, and takes an empty list as
\* "no data" for the given index and columns.
ReconstructRaises(cached_data) ==
    \/ cached_data.t # "dict"
    \/ {"index", "columns", "data"} \ DOMAIN cached_data.x # {}
    \/ LET d == cached_data.x
       IN  \/ d["index"].t # "list" \/ d["columns"].t # "list"
           \/ d["data"].t # "list"
           \/ \E i \in 1..Len(d["data"].x) : d["data"].x[i].t # "list"
           \/ /\ d["data"].x # <<>>
              /\ \/ Len(d["data"].x) # Len(d["index"].x)
                 \/ Width(d["data"].x) # Len(d["columns"].x)

\* the rows pd.DataFrame(data, index=index, columns=columns) holds
FrameRows(d) ==
    [i \in 1..Len(d["index"].x) |->
        [j \in 1..Len(d["columns"].x) |->
            IF i <= Len(d["data"].x) /\ j <= Len(d["data"].x[i].x)
            THEN d["data"].x[i].x[j] ELSE NaN]]

\* variant: the two levels of every column are rebuilt in the other order
reconstruct_levels_swapped(cached_data) ==
    IF ReconstructRaises(cached_data) THEN EmptyTable
    ELSE LET d == cached_data.x
         IN  Table([i \in 1..Len(d["index"].x) |-> to_datetime(d["index"].x[i])],
                   [j \in 1..Len(d["columns"].x) |->
                      [l \in 1..Len(d["columns"].x[j].x) |->
                         d["columns"].x[j].x[Len(d["columns"].x[j].x) + 1 - l].s]],
                   FrameRows(d))

_reconstruct_bulk_dataframe(cached_data) ==
    IF ReconstructRaises(cached_data) THEN EmptyTable
    ELSE LET d == cached_data.x
         IN  Table([i \in 1..Len(d["index"].x) |-> to_datetime(d["index"].x[i])],
                   [j \in 1..Len(d["columns"].x) |->
                      [l \in 1..Len(d["columns"].x[j].x) |->
                         d["columns"].x[j].x[l].s]],
                   FrameRows(d))

get_bulk_historical_data(tickers, period, cached, hist) ==
    LET cache_key == bulk_key(tickers, period)
        negative == SetCall(cache_key, ERROR, TTL_negative)
    IN  IF cached.t # "none"
        THEN IF cached = ERROR
             THEN Returns("DataFrame", Frame(EmptyTable), <<>>, 0)
             ELSE Returns("DataFrame",
                          Frame(_reconstruct_bulk_dataframe(cached)), <<>>, 0)
        ELSE IF hist.raised
        THEN Returns("DataFrame", Frame(EmptyTable), <<negative>>, 1)
        ELSE IF IsEmpty(hist.tbl)
        THEN Returns("DataFrame", Frame(EmptyTable), <<negative>>, 1)
        ELSE Returns("DataFrame", Frame(hist.tbl),
                     <<SetCall(cache_key, bulk_cache_data(hist.tbl),
                               TTL_historical)>>, 1)

(***************************************************************************)
(* get_ticker_info                                                         *)
(***************************************************************************)
S_ticker_info ==
    <<"t", "i", "c", "k", "e", "r", "_", "i", "n", "f", "o", ":">>

ticker_info_key(ticker) == S_ticker_info \o upper(ticker)

Blocklist == {"companyOfficers", "fullTimeEmployees", "longBusinessSummary"}

MaxFieldRepr == 1000

\* variant: only the size rule is applied
cleaned_info_size_only(d) ==
    [k \in {f \in DOMAIN d :
               ~(d[f].t \in {"list", "dict"} /\ d[f].n > MaxFieldRepr)} |->
        d[k]]

\* a list or mapping value carries in n the length of its str() form
cleaned_info(d) ==
    [k \in {f \in DOMAIN d :
               /\ f \notin Blocklist
               /\ ~(d[f].t \in {"list", "dict"} /\ d[f].n > MaxFieldRepr)} |->
        d[k]]

\* variant: a provider failure is cached like a failed history fetch
get_ticker_info_failure_cached(ticker, cached, info) ==
    LET cache_key == ticker_info_key(ticker)
    IN  IF Truthy(cached)
        THEN Returns("dict", cached, <<>>, 0)
        ELSE IF info.raised \/ DOMAIN info.d = {}
        THEN Raises(HTTP_503, 1, <<SetCall(cache_key, ERROR, TTL_negative)>>, 1)
        ELSE Returns("dict", Dict(cleaned_info(info.d)),
                     <<SetCall(cache_key, Dict(cleaned_info(info.d)),
                               TTL_ticker_info)>>, 1)

get_ticker_info(ticker, cached, info) ==
    LET cache_key == ticker_info_key(ticker)
    IN  IF Truthy(cached)
        THEN Returns("dict", cached, <<>>, 0)
        ELSE IF info.raised
        THEN Raises(HTTP_503, 1, <<>>, 1)
        \* the 404 for an empty answer is raised inside the try block and
        \* re-raised as 503 by the except clause
        ELSE IF DOMAIN info.d = {}
        THEN Raises(HTTP_503, 1, <<>>, 1)
        ELSE Returns("dict", Dict(cleaned_info(info.d)),
                     <<SetCall(cache_key, Dict(cleaned_info(info.d)),
                               TTL_ticker_info)>>, 1)

(***************************************************************************)
(* search_tickers                                                          *)
(***************************************************************************)
S_ticker_search ==
    <<"t", "i", "c", "k", "e", "r", "_", "s", "e", "a", "r", "c", "h", ":">>

search_key(query) == S_ticker_search \o lower(query)

\* xs[:limit]
Slice(xs, limit) ==
    IF limit >= 0
    THEN SubSeq(xs, 1, IF limit < Len(xs) THEN limit ELSE Len(xs))
    ELSE SubSeq(xs, 1, IF Len(xs) + limit > 0 THEN Len(xs) + limit ELSE 0)

has_symbol(item) == "symbol" \in DOMAIN item.x /\ Truthy(item.x["symbol"])

RECURSIVE search_results(_)
search_results(data) ==
    IF data = <<>> THEN <<>>
    ELSE IF has_symbol(Head(data))
    THEN <<Head(data)>> \o search_results(Tail(data))
    ELSE search_results(Tail(data))

\* found: the provider's answer, [raised, quotes]
search_tickers(query, limit, cached, found) ==
    LET cache_key == search_key(query)
    IN  IF Truthy(cached)
        THEN Returns("list", List(Slice(cached.x, limit)), <<>>, 0)
        ELSE IF found.raised
        THEN Raises(HTTP_500, 1, <<>>, 1)
        ELSE Returns("list", List(Slice(search_results(found.quotes), limit)),
                     <<SetCall(cache_key, List(search_results(found.quotes)),
                               TTL_search)>>, 1)

(***************************************************************************)
(* State machine: sequential callers.                                      *)
(***************************************************************************)
NoArgs ==
    [ticker |-> <<>>, period |-> <<>>, adjust |-> FALSE, tickers |-> <<>>,
     query |-> <<>>, limit |-> 0]

NoPrev == [out |-> "none", status |-> 0, at |-> 0, result |-> None]

NoPrior == [op |-> "none", args |-> NoArgs, key |-> <<>>]

NoCall ==
    [op |-> "none", args |-> NoArgs, key |-> <<>>, prior |-> NoPrior,
     req |-> <<>>, at |-> 0, cached |-> None,
     resp |-> None, out |-> "none", status |-> 0, result |-> None, gets |-> 0,
     sets |-> <<>>, provider |-> 0, prev |-> NoPrev, cacheSame |-> TRUE,
     getUp |-> TRUE, setUp |-> TRUE, before |-> <<>>, trace |-> <<>>]

\* a coroutine that is not inside a call
Idle ==
    [pc |-> "idle", op |-> "none", args |-> NoArgs, key |-> <<>>,
     cached |-> None, pending |-> <<>>, issued |-> FALSE]

Init ==
    /\ now = 0
    /\ cache = <<>>
    /\ last = NoCall
    /\ fetched = <<>>
    /\ ticked = TRUE
    /\ ncalls = 0
    /\ procs = [p \in 1..NumProcs |-> Idle]

Prev(req) == IF req \in DOMAIN fetched THEN fetched[req] ELSE NoPrev

\* variant: a set that did not succeed fails the request
after_writes_checked(r, ok) ==
    IF ok \/ r.sets = <<>> THEN r
    ELSE [r EXCEPT !.out = "HTTPException", !.status = HTTP_500,
                   !.result = None]

\* every "await redis_service.set_cached_data(...)" is an expression
\* statement: what set answers is discarded
after_writes(r, ok) == r

\* One whole call: h is what the handler did, given what get returned.
Complete(op, args, key, req, cached, resp, h, getUp, setUp) ==
    LET after == ApplySets(cache, h.sets, now, setUp)
        r == after_writes(h, setUp)
    IN  /\ ncalls < MaxCalls
        /\ cache' = after
        /\ last' = [op |-> op, args |-> args, key |-> key,
                    prior |-> [op |-> last.op, args |-> last.args,
                               key |-> last.key],
                    req |-> req, at |-> now,
                    cached |-> cached, resp |-> resp, out |-> r.out,
                    status |-> r.status, result |-> r.result,
                    gets |-> r.gets, sets |-> r.sets,
                    provider |-> r.provider, prev |-> Prev(req),
                    cacheSame |-> (after = cache),
                    getUp |-> getUp, setUp |-> setUp, before |-> cache,
                    trace |-> IF "trace" \in DOMAIN h THEN h.trace ELSE <<>>]
        /\ fetched' =
              IF r.provider > 0
              THEN [q \in DOMAIN fetched \cup {req} |->
                      IF q = req
                      THEN [out |-> r.out, status |-> r.status, at |-> now,
                            result |-> r.result]
                      ELSE fetched[q]]
              ELSE fetched
        /\ ticked' = FALSE
        /\ ncalls' = ncalls + 1
        /\ UNCHANGED <<now, procs>>

\* Time passes between calls; expired entries leave the store.
Advance(Delays) ==
    /\ ~ticked
    /\ ncalls < MaxCalls
    /\ \E d \in Delays :
          /\ now' = now + d
          /\ cache' = Expire(cache, now + d)
    /\ ticked' = TRUE
    /\ UNCHANGED <<last, fetched, ncalls, procs>>

(***************************************************************************)
(* Validation family.                                                      *)
(***************************************************************************)
Tickers ==
    { <<>>,
      <<"a", "b">>, <<"A", "B">>, <<"a", "B">>,
      <<"^", "M", "1">>, <<"b", ".", "a">>,
      <<"A", "B", "A", "B", "A", "B", "A", "B", "A", "B">>,
      <<"A", "B", "A", "B", "A", "B", "A", "B", "A", "B", "A">>,
      <<"a", ":">>, <<"a", " ", "b">>, <<"-">> }

Info(raised, d) == [raised |-> raised, d |-> d]

InfoResponses ==
    { Info(TRUE, <<>>),
      Info(FALSE, <<>>),
      Info(FALSE, [f \in {"regularMarketPrice"} |-> Num(10)]),
      Info(FALSE, [f \in {"regularMarketPrice"} |-> None]),
      Info(FALSE, [f \in {"currentPrice"} |-> Num(5)]) }

ValidateCall ==
    \E ticker \in Tickers, info \in InfoResponses :
        LET cached == get_cached_data(cache, validation_key(ticker), now, TRUE)
        IN  Complete("validate_ticker", [NoArgs EXCEPT !.ticker = ticker],
                     validation_key(ticker),
                     <<"validate">> \o upper(ticker), cached, info,
                     validate_ticker(ticker, cached, info), TRUE, TRUE)

ValidationDelays == {59, 60, 3599, 3600}

ValidateTick == Advance(ValidationDelays)

NextValidate == ValidateCall \/ ValidateTick

SpecValidate == Init /\ [][NextValidate]_vars

(***************************************************************************)
(* C1: a symbol that is empty, longer than 10 characters or contains a     *)
(* character other than alphanumeric, '.' or '^' fails with HTTP 400, and  *)
(* the call performs no cache get, no cache set and no provider call; the  *)
(* cache is unchanged.                                                     *)
(***************************************************************************)
BadShape(ticker) ==
    \/ Len(ticker) = 0
    \/ Len(ticker) > 10
    \/ \E i \in 1..Len(ticker) :
          ticker[i] \notin LowerLetters \cup UpperLetters \cup Digits \cup {".", "^"}

C1_InvalidSymbolRejectedLocally ==
    (last.op = "validate_ticker" /\ BadShape(last.args.ticker)) =>
        /\ last.out = "HTTPException"
        /\ last.status = 400
        /\ last.gets = 0
        /\ last.sets = <<>>
        /\ last.provider = 0
        /\ last.cacheSame

C1_Witness ==
    /\ last.op = "validate_ticker"
    /\ Len(last.args.ticker) = 11
    /\ last.status = 400
    /\ DOMAIN cache # {}

(***************************************************************************)
(* C2: after a provider-derived NotFound (404) for a well-formed symbol,   *)
(* every call for that symbol less than 60s later answers 404 without a    *)
(* provider call, and the first call 60s or more later calls the provider. *)
(***************************************************************************)
C2_NegativeValidationLives60s ==
    (last.op = "validate_ticker" /\ last.prev.status = 404) =>
        /\ (last.at - last.prev.at < 60) =>
               (last.status = 404 /\ last.provider = 0)
        /\ (last.at - last.prev.at >= 60) => last.provider = 1

C2_Witness ==
    /\ last.op = "validate_ticker"
    /\ last.prev.status = 404
    /\ last.at - last.prev.at = 59
    /\ last.status = 404
    /\ last.provider = 0

(***************************************************************************)
(* C3: a miss whose provider info carries a live market price succeeds and *)
(* writes true at ticker_validation:{UPPER(symbol)} for 3600s; every call  *)
(* for that symbol, in any letter case, less than 3600s later succeeds     *)
(* without a provider call.                                                *)
(***************************************************************************)
HasLivePrice(info) ==
    /\ ~info.raised
    /\ "regularMarketPrice" \in DOMAIN info.d
    /\ info.d["regularMarketPrice"] # None

C3_PositiveValidationLives3600s ==
    last.op = "validate_ticker" =>
        /\ (last.gets = 1 /\ last.cached = None /\ HasLivePrice(last.resp)) =>
               /\ last.out = "True"
               /\ last.sets =
                     << [key |-> S_ticker_validation \o upper(last.args.ticker),
                         value |-> Bool(TRUE), expiry |-> 3600] >>
        /\ (last.prev.out = "True" /\ last.at - last.prev.at < 3600) =>
               (last.out = "True" /\ last.provider = 0)

C3_Witness ==
    /\ last.op = "validate_ticker"
    /\ last.prev.out = "True"
    /\ last.at - last.prev.at = 3599
    /\ last.args.ticker = <<"a", "B">>
    /\ last.out = "True"
    /\ last.provider = 0

(***************************************************************************)
(* Single-ticker history family.                                           *)
(***************************************************************************)
NewYork == <<"-", "0", "5", ":", "0", "0">>

TwoDays ==
    Table(<<Timestamp(2, NewYork), Timestamp(3, NewYork)>>,
          << <<"O", "p", "e", "n">>, <<"C", "l", "o", "s", "e">> >>,
          << <<Num(1), Num(2)>>, <<Num(3), Num(4)>> >>)

OneDay ==
    Table(<<Timestamp(17, <<>>)>>, << <<"C", "l", "o", "s", "e">> >>,
          << <<Num(7)>> >>)

Hist(raised, tbl) == [raised |-> raised, tbl |-> tbl]

HistResponses ==
    { Hist(TRUE, EmptyTable), Hist(FALSE, EmptyTable),
      Hist(FALSE, TwoDays), Hist(FALSE, OneDay) }

HistTickers == { <<"m">>, <<"M">> }

Periods == { <<"1", "y">>, <<"6", "m", "o">> }

HistoryCall ==
    \E ticker \in HistTickers, period \in Periods, adjust \in BOOLEAN,
       hist \in HistResponses :
        LET key == historical_key(ticker, period, adjust)
            cached == get_cached_data(cache, key, now, TRUE)
        IN  Complete("get_historical_data",
                     [NoArgs EXCEPT !.ticker = ticker, !.period = period,
                                    !.adjust = adjust],
                     key, <<"history", upper(ticker), period, adjust>>,
                     cached, hist,
                     get_historical_data(ticker, period, adjust, cached, hist),
                     TRUE, TRUE)

HistoryDelays == {299, 300, 599, 600}

HistoryTick == Advance(HistoryDelays)

NextHistory == HistoryCall \/ HistoryTick

SpecHistory == Init /\ [][NextHistory]_vars

(***************************************************************************)
(* C6: a history miss whose provider answer is empty, or whose provider    *)
(* call raises, returns None without an error and writes the marker at     *)
(* historical:{UPPER(symbol)}:{period}:{adjust} for 300s; every identical  *)
(* call less than 300s later returns None without a provider call.         *)
(***************************************************************************)
C6_EmptyHistoryCached300s ==
    last.op = "get_historical_data" =>
        /\ (last.cached = None /\ (last.resp.raised \/ IsEmpty(last.resp.tbl))) =>
               /\ last.out = "None"
               /\ last.status = 0
               /\ last.sets =
                     << [key |-> S_historical \o upper(last.args.ticker)
                                   \o <<":">> \o last.args.period \o <<":">>
                                   \o (IF last.args.adjust
                                       THEN <<"T", "r", "u", "e">>
                                       ELSE <<"F", "a", "l", "s", "e">>),
                         value |-> ERROR, expiry |-> 300] >>
        /\ (last.prev.out = "None" /\ last.at - last.prev.at < 300) =>
               (last.out = "None" /\ last.status = 0 /\ last.provider = 0)

C6_Witness ==
    /\ last.op = "get_historical_data"
    /\ last.prior.args = last.args
    /\ last.prev.out = "None"
    /\ last.at - last.prev.at = 299
    /\ last.out = "None"
    /\ last.provider = 0

(***************************************************************************)
(* C7: a history call served from a cached series returns a table with the *)
(* same index, the same row count, the same column set and the same rows   *)
(* in the same order as the table the original fetch returned.             *)
(***************************************************************************)
ColumnSet(tbl) == {tbl.columns[j] : j \in 1..Len(tbl.columns)}

C7_HistoryRoundTrip ==
    (last.op = "get_historical_data" /\ last.cached.t = "dict") =>
        /\ last.out = "DataFrame"
        /\ last.result.x.index = last.prev.result.x.index
        /\ Len(last.result.x.data) = Len(last.prev.result.x.data)
        /\ ColumnSet(last.result.x) = ColumnSet(last.prev.result.x)
        /\ \A i \in 1..Len(last.result.x.data) :
              \A j \in 1..Len(last.result.x.columns) :
                \E k \in 1..Len(last.prev.result.x.columns) :
                    /\ last.prev.result.x.columns[k] = last.result.x.columns[j]
                    /\ last.prev.result.x.data[i][k] = last.result.x.data[i][j]

(***************************************************************************)
(* Bulk history family.                                                    *)
(***************************************************************************)
Close == <<"C", "l", "o", "s", "e">>
Open == <<"O", "p", "e", "n">>

BulkTwoDays ==
    Table(<<Timestamp(2, <<>>), Timestamp(3, <<>>)>>,
          << <<Close, <<"A">> >>, <<Close, <<"M">> >>,
             <<Open, <<"A">> >>, <<Open, <<"M">> >> >>,
          << <<Num(1), Num(2), Num(3), Num(4)>>,
             <<Num(5), Num(6), Num(7), Num(8)>> >>)

BulkOneDay ==
    Table(<<Timestamp(17, NewYork)>>,
          << <<Close, <<"M">> >>, <<Close, <<"A">> >> >>,
          << <<Num(9), Num(8)>> >>)

BulkResponses ==
    { Hist(TRUE, EmptyTable), Hist(FALSE, EmptyTable),
      Hist(FALSE, BulkTwoDays), Hist(FALSE, BulkOneDay) }

TickerLists ==
    { << <<"A">>, <<"M">> >>, << <<"M">>, <<"A">> >>,
      << <<"a">>, <<"m">> >>, << <<"M">>, <<"a">> >> }

BagOf(xs) ==
    [e \in {xs[i] : i \in 1..Len(xs)} |->
        Cardinality({i \in 1..Len(xs) : xs[i] = e})]

BulkCall ==
    \E tickers \in TickerLists, period \in Periods, hist \in BulkResponses :
        LET key == bulk_key(tickers, period)
            cached == get_cached_data(cache, key, now, TRUE)
        IN  Complete("get_bulk_historical_data",
                     [NoArgs EXCEPT !.tickers = tickers, !.period = period],
                     key, <<"bulk", BagOf(tickers), period>>, cached, hist,
                     get_bulk_historical_data(tickers, period, cached, hist),
                     TRUE, TRUE)

BulkTick == Advance(HistoryDelays)

NextBulk == BulkCall \/ BulkTick

SpecBulk == Init /\ [][NextBulk]_vars

(***************************************************************************)
(* C8: a bulk call for a permutation of the previous call's symbol list,   *)
(* with the same period, uses the same cache key; while the entry the      *)
(* first call wrote is alive the second call is served that data from the  *)
(* cache without a provider call.                                          *)
(***************************************************************************)
C8_BulkOrderInvariant ==
    ( /\ last.op = "get_bulk_historical_data"
      /\ last.prior.op = "get_bulk_historical_data"
      /\ BagOf(last.args.tickers) = BagOf(last.prior.args.tickers)
      /\ last.args.period = last.prior.args.period ) =>
        /\ last.key = last.prior.key
        /\ ( /\ last.prev.out # "none"
             /\ last.at - last.prev.at <
                  (IF IsEmpty(last.prev.result.x) THEN 300 ELSE 600) ) =>
               /\ last.provider = 0
               /\ last.sets = <<>>
               /\ last.result = last.prev.result

C8_Witness ==
    /\ last.op = "get_bulk_historical_data"
    /\ last.prior.op = "get_bulk_historical_data"
    /\ last.args.tickers = << <<"M">>, <<"A">> >>
    /\ last.prior.args.tickers = << <<"A">>, <<"M">> >>
    /\ last.args.period = last.prior.args.period
    /\ last.at - last.prev.at = 599
    /\ last.provider = 0
    /\ Len(last.result.x.data) = 2

(***************************************************************************)
(* C9: two bulk calls whose symbol lists differ only in letter case, with  *)
(* the same period, address the same cache entry.                          *)
(***************************************************************************)
SameUpToCase(xs, ys) ==
    /\ Len(xs) = Len(ys)
    /\ \A i \in 1..Len(xs) : upper(xs[i]) = upper(ys[i])

C9_BulkKeyCaseNormalized ==
    ( /\ last.op = "get_bulk_historical_data"
      /\ last.prior.op = "get_bulk_historical_data"
      /\ SameUpToCase(last.args.tickers, last.prior.args.tickers)
      /\ last.args.period = last.prior.args.period ) =>
        last.key = last.prior.key

(***************************************************************************)
(* C10: a bulk table rebuilt from a cached entry has the ticker set, the   *)
(* field set of every ticker, the column order, the row count and the      *)
(* chronological row order of the table that was cached.                   *)
(***************************************************************************)
TickerSet(tbl) == {tbl.columns[j][2] : j \in 1..Len(tbl.columns)}

FieldSet(tbl, ticker) ==
    {tbl.columns[j][1] : j \in {k \in 1..Len(tbl.columns) :
                                   tbl.columns[k][2] = ticker}}

C10_BulkRoundTrip ==
    (last.op = "get_bulk_historical_data" /\ last.cached.t = "dict") =>
        LET got == last.result.x
            was == last.prev.result.x
        IN  /\ last.out = "DataFrame"
            /\ TickerSet(got) = TickerSet(was)
            /\ \A tk \in TickerSet(was) : FieldSet(got, tk) = FieldSet(was, tk)
            /\ got.columns = was.columns
            /\ Len(got.data) = Len(was.data)
            /\ got.index = was.index
            /\ got.data = was.data

C10_Witness ==
    /\ last.op = "get_bulk_historical_data"
    /\ last.cached.t = "dict"
    /\ last.provider = 0
    /\ Len(last.result.x.data) = 2
    /\ Len(last.result.x.columns) = 4

(***************************************************************************)
(* All five resolvers behind one dispatcher.                               *)
(***************************************************************************)
Found(raised, quotes) == [raised |-> raised, quotes |-> quotes]

Quote(symbol) == Dict([f \in {"symbol"} |-> Str(symbol)])

SearchResponses ==
    { Found(TRUE, <<>>),
      Found(FALSE, <<>>),
      Found(FALSE, <<Quote(<<"M">>), Dict([f \in {"shortname"} |-> Str(<<"m">>)]),
                     Quote(<<"M", "1">>)>>) }

KeyOf(op, args) ==
    CASE op = "validate_ticker" -> validation_key(args.ticker)
      [] op = "get_ticker_info" -> ticker_info_key(args.ticker)
      [] op = "get_historical_data" ->
           historical_key(args.ticker, args.period, args.adjust)
      [] op = "get_bulk_historical_data" -> bulk_key(args.tickers, args.period)
      [] op = "search_tickers" -> search_key(args.query)

Handle(op, args, cached, resp) ==
    CASE op = "validate_ticker" -> validate_ticker(args.ticker, cached, resp)
      [] op = "get_ticker_info" -> get_ticker_info(args.ticker, cached, resp)
      [] op = "get_historical_data" ->
           get_historical_data(args.ticker, args.period, args.adjust, cached, resp)
      [] op = "get_bulk_historical_data" ->
           get_bulk_historical_data(args.tickers, args.period, cached, resp)
      [] op = "search_tickers" ->
           search_tickers(args.query, args.limit, cached, resp)

ResponsesOf(op) ==
    CASE op \in {"validate_ticker", "get_ticker_info"} ->
           { Info(TRUE, <<>>), Info(FALSE, <<>>),
             Info(FALSE, [f \in {"regularMarketPrice"} |-> Num(10)]) }
      [] op = "get_historical_data" ->
           { Hist(TRUE, EmptyTable), Hist(FALSE, EmptyTable), Hist(FALSE, OneDay) }
      [] op = "get_bulk_historical_data" ->
           { Hist(TRUE, EmptyTable), Hist(FALSE, EmptyTable),
             Hist(FALSE, BulkOneDay) }
      [] op = "search_tickers" -> SearchResponses

Requests ==
    { [op |-> "validate_ticker", args |-> [NoArgs EXCEPT !.ticker = <<"m">>]],
      [op |-> "validate_ticker", args |-> [NoArgs EXCEPT !.ticker = <<"a", ":">>]],
      [op |-> "get_ticker_info", args |-> [NoArgs EXCEPT !.ticker = <<"m">>]],
      [op |-> "get_historical_data",
       args |-> [NoArgs EXCEPT !.ticker = <<"m">>, !.period = <<"1", "y">>]],
      [op |-> "get_bulk_historical_data",
       args |-> [NoArgs EXCEPT !.tickers = << <<"A">>, <<"M">> >>,
                               !.period = <<"1", "y">>]],
      [op |-> "search_tickers",
       args |-> [NoArgs EXCEPT !.query = <<"M">>, !.limit = 1]] }

(***************************************************************************)
(* Degraded store: any get or set of a call may fail.                      *)
(***************************************************************************)
DegradedCall ==
    \E rq \in Requests, getUp \in BOOLEAN, setUp \in BOOLEAN :
      \E resp \in ResponsesOf(rq.op) :
        LET key == KeyOf(rq.op, rq.args)
            cached == get_cached_data(cache, key, now, getUp)
        IN  Complete(rq.op, rq.args, key, <<rq.op, rq.args>>, cached, resp,
                     Handle(rq.op, rq.args, cached, resp), getUp, setUp)

NextDegraded == DegradedCall

SpecDegraded == Init /\ [][NextDegraded]_vars

(***************************************************************************)
(* C5: when a cache get or set of a call fails, the caller receives what a *)
(* miss with a working cache gives for the same provider answer; a failed  *)
(* write after a successful fetch never turns the call into a failure or   *)
(* an empty / not-found result.                                            *)
(***************************************************************************)
StoreFailed ==
    \/ last.gets > 0 /\ ~last.getUp
    \/ last.sets # <<>> /\ ~last.setUp

GoodAnswer(op, resp) ==
    CASE op = "validate_ticker" ->
           ~resp.raised /\ "regularMarketPrice" \in DOMAIN resp.d
      [] op = "get_ticker_info" -> ~resp.raised /\ DOMAIN resp.d # {}
      [] op \in {"get_historical_data", "get_bulk_historical_data"} ->
           ~resp.raised /\ Len(resp.tbl.index) > 0
      [] op = "search_tickers" -> ~resp.raised

ConcurrentRequests ==
    { rq \in Requests :
        rq.op \in {"get_ticker_info", "get_historical_data"} }

\* entry of the handler up to "await redis_service.get_cached_data"
Begin(p) ==
    /\ procs[p].pc = "idle"
    /\ \E rq \in ConcurrentRequests :
          LET key == KeyOf(rq.op, rq.args)
          IN  procs' = [procs EXCEPT ![p] =
                          [pc |-> "got", op |-> rq.op, args |-> rq.args,
                           key |-> key,
                           cached |-> get_cached_data(cache, key, now, TRUE),
                           pending |-> <<>>, issued |-> FALSE]]
    /\ UNCHANGED <<now, cache, last, fetched, ticked, ncalls>>

\* from the answer of get to the next await (or to the end of the call)
Resume(p) ==
    /\ procs[p].pc = "got"
    /\ \E resp \in ResponsesOf(procs[p].op) :
          LET r == Handle(procs[p].op, procs[p].args, procs[p].cached, resp)
          IN  IF r.sets = <<>>
              THEN /\ procs' = [procs EXCEPT ![p] = Idle]
                   /\ cache' = cache
              ELSE /\ procs' = [procs EXCEPT ![p].pc = "set",
                                             ![p].pending = Tail(r.sets),
                                             ![p].issued = (r.provider > 0)]
                   /\ cache' = set_cached_data(cache, Head(r.sets), now, TRUE)
    /\ UNCHANGED <<now, last, fetched, ticked, ncalls>>

\* from the answer of set to the next await (or to the end of the call)
Written(p) ==
    /\ procs[p].pc = "set"
    /\ IF procs[p].pending = <<>>
       THEN /\ procs' = [procs EXCEPT ![p] = Idle]
            /\ cache' = cache
       ELSE /\ procs' = [procs EXCEPT ![p].pending = Tail(procs[p].pending)]
            /\ cache' = set_cached_data(cache, Head(procs[p].pending), now, TRUE)
    /\ UNCHANGED <<now, last, fetched, ticked, ncalls>>

\* the store drops an entry (expiry)
Evict ==
    /\ \E k \in DOMAIN cache : cache' = [j \in DOMAIN cache \ {k} |-> cache[j]]
    /\ UNCHANGED <<now, last, fetched, ticked, ncalls, procs>>

NextConcurrent ==
    \/ \E p \in 1..NumProcs : Begin(p)
    \/ \E p \in 1..NumProcs : Resume(p)
    \/ \E p \in 1..NumProcs : Written(p)
    \/ Evict

SpecConcurrent == Init /\ [][NextConcurrent]_vars

(***************************************************************************)
(* C4: two callers inside a call for the same cache key never both issue   *)
(* a provider call for it.                                                 *)
(***************************************************************************)
C4_SingleFlight ==
    \A p, q \in 1..NumProcs :
        ( /\ p # q
          /\ procs[p].pc # "idle"
          /\ procs[q].pc # "idle"
          /\ procs[p].key = procs[q].key ) =>
            ~(procs[p].issued /\ procs[q].issued)

(***************************************************************************)
(* Bulk history over a store that holds a foreign or damaged entry.        *)
(***************************************************************************)
IsoDay2 == isoformat(Timestamp(2, <<>>))
IsoDay3 == isoformat(Timestamp(3, <<>>))
TwoColumns ==
    List(<<List(<<Str(Close), Str(<<"A">>)>>), List(<<Str(Close), Str(<<"M">>)>>)>>)

Entry(index, columns, data) ==
    Dict([k \in {"index", "columns", "data"} |->
            CASE k = "index" -> index [] k = "columns" -> columns
              [] k = "data" -> data])

MalformedEntries ==
    { \* not a mapping
      Str(<<"a">>), List(<<>>),
      \* a key is missing
      Dict([k \in {"index", "columns"} |->
              IF k = "index" THEN List(<<IsoDay2>>) ELSE TwoColumns]),
      Dict([k \in {"columns", "data"} |->
              IF k = "columns" THEN TwoColumns
              ELSE List(<<List(<<Num(1), Num(2)>>)>>)]),
      \* fewer rows than index entries
      Entry(List(<<IsoDay2, IsoDay3>>), TwoColumns,
            List(<<List(<<Num(1), Num(2)>>)>>)),
      \* rows narrower than the column list
      Entry(List(<<IsoDay2>>), TwoColumns, List(<<List(<<Num(1)>>)>>)),
      \* rows of different widths
      Entry(List(<<IsoDay2, IsoDay3>>), TwoColumns,
            List(<<List(<<Num(1), Num(2)>>), List(<<Num(3)>>)>>)),
      \* no rows for a non-empty index
      Entry(List(<<IsoDay2>>), TwoColumns, List(<<>>)) }

\* something other than this service writes an entry under a bulk key of
\* the empty store
Poison ==
    /\ ncalls < MaxCalls
    /\ cache = <<>>
    /\ \E tickers \in TickerLists, period \in Periods, v \in MalformedEntries :
          cache' = set_cached_data(cache,
                       SetCall(bulk_key(tickers, period), v, TTL_historical),
                       now, TRUE)
    /\ ncalls' = ncalls + 1
    /\ UNCHANGED <<now, last, fetched, ticked, procs>>

NextMalformed == BulkCall \/ Poison

SpecMalformed == Init /\ [][NextMalformed]_vars

(***************************************************************************)
(* C11: when the value cached under a bulk key is malformed (index,        *)
(* columns or data missing, or shapes that do not match), the call returns *)
(* an empty table and raises nothing.                                      *)
(***************************************************************************)
C11_MalformedEntryGivesEmpty ==
    ( /\ last.op = "get_bulk_historical_data"
      /\ last.cached \in MalformedEntries ) =>
        /\ last.status = 0
        /\ last.out = "DataFrame"
        /\ IsEmpty(last.result.x)

(***************************************************************************)
(* Ticker info family.                                                     *)
(***************************************************************************)
\* a list value whose str() form has n characters
ListOfRepr(items, n) ==
    [t |-> "list", b |-> FALSE, n |-> n, s |-> <<>>, x |-> items]

InfoPayloads ==
    { Info(TRUE, <<>>),
      Info(FALSE, <<>>),
      Info(FALSE,
           [f \in {"regularMarketPrice", "companyOfficers", "fullTimeEmployees",
                   "longBusinessSummary"} |->
              CASE f = "regularMarketPrice" -> Num(10)
                [] f = "companyOfficers" -> ListOfRepr(<<Str(<<"a">>)>>, 5)
                [] f = "fullTimeEmployees" -> Num(6)
                [] f = "longBusinessSummary" -> Str(<<"a", "b">>)]),
      Info(FALSE,
           [f \in {"currentPrice", "holders"} |->
              IF f = "currentPrice" THEN Num(5)
              ELSE ListOfRepr(<<Num(1)>>, 1001)]),
      Info(FALSE, [f \in {"companyOfficers"} |-> ListOfRepr(<<>>, 2)]) }

InfoTickers == { <<"m">>, <<"M">> }

InfoCall ==
    \E ticker \in InfoTickers, info \in InfoPayloads :
        LET key == ticker_info_key(ticker)
            cached == get_cached_data(cache, key, now, TRUE)
        IN  Complete("get_ticker_info", [NoArgs EXCEPT !.ticker = ticker],
                     key, <<"info", upper(ticker)>>, cached, info,
                     get_ticker_info(ticker, cached, info), TRUE, TRUE)

InfoDelays == {299, 300}

InfoTick == Advance(InfoDelays)

NextInfo == InfoCall \/ InfoTick

SpecInfo == Init /\ [][NextInfo]_vars

(***************************************************************************)
(* C12: no mapping returned by get_ticker_info, from a miss or from an     *)
(* entry it wrote, and no value stored under a ticker_info key, contains   *)
(* companyOfficers, fullTimeEmployees or longBusinessSummary.              *)
(***************************************************************************)
Heavy == {"companyOfficers", "fullTimeEmployees", "longBusinessSummary"}

C12_InfoNeverCarriesBlocklistedFields ==
    last.op = "get_ticker_info" =>
        /\ last.status = 0 => DOMAIN last.result.x \cap Heavy = {}
        /\ \A k \in DOMAIN cache :
              SubSeq(k, 1, Len(S_ticker_info)) = S_ticker_info =>
                  DOMAIN cache[k].value.x \cap Heavy = {}

C12_Witness ==
    /\ last.op = "get_ticker_info"
    /\ last.provider = 1
    /\ ~last.resp.raised
    /\ "companyOfficers" \in DOMAIN last.resp.d
    /\ "regularMarketPrice" \in DOMAIN last.result.x
    /\ last.key \in DOMAIN cache

(***************************************************************************)
(* C13: a ticker info miss whose provider answer is empty, without the     *)
(* provider raising, fails with HTTP 404, not with the 503 of a provider   *)
(* exception.                                                              *)
(***************************************************************************)
C13_EmptyInfoIsNotFound ==
    ( /\ last.op = "get_ticker_info"
      /\ last.provider = 1
      /\ ~last.resp.raised
      /\ DOMAIN last.resp.d = {} ) =>
        (last.out = "HTTPException" /\ last.status = 404)

(***************************************************************************)
(* C14: when the provider raises, get_ticker_info fails with HTTP 503 and  *)
(* writes nothing, the cache is unchanged and the next call for the symbol *)
(* calls the provider again; a successful miss performs exactly one cache  *)
(* write, with expiry 300s.                                                *)
(***************************************************************************)
C14_InfoFailureNotCached ==
    last.op = "get_ticker_info" =>
        /\ (last.provider = 1 /\ last.resp.raised) =>
               /\ last.out = "HTTPException"
               /\ last.status = 503
               /\ last.sets = <<>>
               /\ last.cacheSame
        /\ last.prev.status = 503 => last.provider = 1
        /\ (last.provider = 1 /\ last.status = 0) =>
               (Len(last.sets) = 1 /\ last.sets[1].expiry = 300)

C14_Witness ==
    /\ last.op = "get_ticker_info"
    /\ last.prior.op = "get_ticker_info"
    /\ last.prev.status = 503
    /\ last.at - last.prev.at = 299
    /\ last.provider = 1
    /\ last.status = 0
    /\ Len(last.sets) = 1

(***************************************************************************)
(* Search family.                                                          *)
(***************************************************************************)
NoSymbol == Dict([f \in {"shortname"} |-> Str(<<"m">>)])

BlankSymbol == Dict([f \in {"symbol"} |-> Str(<<>>)])

SearchAnswers ==
    { Found(TRUE, <<>>),
      Found(FALSE, <<>>),
      Found(FALSE, <<NoSymbol, BlankSymbol>>),
      Found(FALSE, <<Quote(<<"M">>), NoSymbol, Quote(<<"M", "1">>), BlankSymbol,
                     Quote(<<"M", "6">>)>>) }

Queries == { <<"m">>, <<"M">> }

Limits == {1, 2}

SearchCall ==
    \E query \in Queries, limit \in Limits, found \in SearchAnswers :
        LET key == search_key(query)
            cached == get_cached_data(cache, key, now, TRUE)
        IN  Complete("search_tickers",
                     [NoArgs EXCEPT !.query = query, !.limit = limit],
                     key, <<"search", lower(query)>>, cached, found,
                     search_tickers(query, limit, cached, found), TRUE, TRUE)

SearchDelays == {1799, 1800}

SearchTick == Advance(SearchDelays)

NextSearch == SearchCall \/ SearchTick

SpecSearch == Init /\ [][NextSearch]_vars

(***************************************************************************)
(* C15: a search miss stores the provider entries that have a non-empty    *)
(* symbol, all of them, under a key without the limit, and returns the     *)
(* first limit of them; a later call for the same query, with any limit,   *)
(* is served from that entry and returns the first limit entries of the    *)
(* stored list.                                                            *)
(***************************************************************************)
RECURSIVE WithSymbol(_)
WithSymbol(quotes) ==
    IF quotes = <<>> THEN <<>>
    ELSE LET q == Head(quotes)
         IN  (IF "symbol" \in DOMAIN q.x /\ q.x["symbol"].s # <<>>
              THEN <<q>> ELSE <<>>) \o WithSymbol(Tail(quotes))

FirstN(xs, n) == [i \in 1..(IF n < Len(xs) THEN n ELSE Len(xs)) |-> xs[i]]

C15_SearchCachesFullListOnce ==
    last.op = "search_tickers" =>
        /\ (last.provider = 1 /\ ~last.resp.raised) =>
               /\ Len(last.sets) = 1
               /\ last.sets[1].key = S_ticker_search \o lower(last.args.query)
               /\ last.sets[1].value.x = WithSymbol(last.resp.quotes)
               /\ last.result.x =
                      FirstN(WithSymbol(last.resp.quotes), last.args.limit)
        /\ ( /\ last.prior.op = "search_tickers"
             /\ last.prior.args.query = last.args.query
             /\ last.prev.out = "list"
             /\ last.at - last.prev.at < 1800 ) =>
               /\ last.provider = 0
               /\ last.key \in DOMAIN last.before
               /\ last.result.x =
                      FirstN(last.before[last.key].value.x, last.args.limit)

(***************************************************************************)
(* C16: a provider failure during search_tickers reaches the caller as     *)
(* HTTP 503 and nothing is written to the cache.                           *)
(***************************************************************************)
C16_SearchFailureIsUnavailable ==
    ( /\ last.op = "search_tickers"
      /\ last.provider = 1
      /\ last.resp.raised ) =>
        /\ last.out = "HTTPException"
        /\ last.status = 503
        /\ last.sets = <<>>
        /\ last.cacheSame

(***************************************************************************)
(* C20: once a search_tickers call got an answer from the provider, even   *)
(* one whose filtered list is empty, every call for the same query in any  *)
(* letter case within the next 1800s is answered without the provider.     *)
(***************************************************************************)
C20_SearchServedFromCacheFor1800s ==
    ( /\ last.op = "search_tickers"
      /\ last.prev.out = "list"
      /\ last.at - last.prev.at < 1800 ) =>
        last.provider = 0

(***************************************************************************)
(* C18: every cache write of every resolver, on every path, uses the TTL   *)
(* of its operation kind and outcome: validation true 3600s, validation    *)
(* false 60s, ticker info 300s, history and bulk history data 600s, their  *)
(* negative marker 300s, search 1800s.  validate_ticker never writes       *)
(* false with another TTL than 60s, not even as a first of two writes.     *)
(***************************************************************************)
TTLOf(op, value) ==
    CASE op = "validate_ticker" -> IF value.b THEN 3600 ELSE 60
      [] op = "get_ticker_info" -> 300
      [] op \in {"get_historical_data", "get_bulk_historical_data"} ->
           IF value.t = "str" THEN 300 ELSE 600
      [] op = "search_tickers" -> 1800
      [] OTHER -> 0

C18_WritesUseTheFixedTTL ==
    \A i \in 1..Len(last.sets) :
        last.sets[i].expiry = TTLOf(last.op, last.sets[i].value)

(***************************************************************************)
(* get_current_price, get_bulk_current_prices                              *)
(***************************************************************************)
\* d.get(field)
Get(d, field) == IF field \in DOMAIN d THEN d[field] ELSE None

\* info.get('regularMarketPrice') or info.get('currentPrice')
price_of(d) ==
    IF Truthy(Get(d, "regularMarketPrice"))
    THEN Get(d, "regularMarketPrice")
    ELSE Get(d, "currentPrice")

\* every exception of get_ticker_info is caught and answered with None
get_current_price(ticker, cached, info) ==
    LET r == get_ticker_info(ticker, cached, info)
    IN  IF r.status # 0
        THEN [Returns("price", None, r.sets, r.provider) EXCEPT !.gets = r.gets]
        ELSE Returns("price", price_of(r.result.x), r.sets, r.provider)

\* the loop over the tickers: each iteration reads the store as the
\* iterations before it left it, and has its own provider answer
RECURSIVE price_loop(_, _, _, _)
price_loop(tickers, answers, c, t) ==
    IF tickers = <<>> THEN <<>>
    ELSE LET ticker == Head(tickers)
             cached == get_cached_data(c, ticker_info_key(ticker), t, TRUE)
             info == get_ticker_info(ticker, cached, Head(answers))
             r == get_current_price(ticker, cached, Head(answers))
         IN  <<[ticker |-> ticker, cached |-> cached,
                failed |-> (info.status # 0), info |-> info.result,
                price |-> r.result, sets |-> r.sets,
                provider |-> r.provider]>>
             \o price_loop(Tail(tickers), Tail(answers),
                           ApplySets(c, r.sets, t, TRUE), t)

RECURSIVE AllSets(_)
AllSets(steps) ==
    IF steps = <<>> THEN <<>> ELSE Head(steps).sets \o AllSets(Tail(steps))

RECURSIVE ProviderCalls(_)
ProviderCalls(steps) ==
    IF steps = <<>> THEN 0 ELSE Head(steps).provider + ProviderCalls(Tail(steps))

\* prices[ticker] = price, in loop order: the last assignment stays
prices_of(steps) ==
    [k \in {steps[i].ticker : i \in 1..Len(steps)} |->
        LET i == CHOOSE i \in 1..Len(steps) :
                    /\ steps[i].ticker = k
                    /\ \A j \in (i + 1)..Len(steps) : steps[j].ticker # k
        IN  steps[i].price]

\* variant: the first failing symbol ends the loop
get_bulk_current_prices_aborting(tickers, answers, c, t) ==
    LET all == price_loop(tickers, answers, c, t)
        bad == {i \in 1..Len(all) : all[i].failed}
        n == IF bad = {} THEN Len(all)
             ELSE (CHOOSE i \in bad : \A j \in bad : i <= j) - 1
        steps == SubSeq(all, 1, n)
    IN  [out |-> "dict", status |-> 0, result |-> Dict(prices_of(steps)),
         gets |-> Len(steps), sets |-> AllSets(steps),
         provider |-> ProviderCalls(steps), trace |-> steps]

get_bulk_current_prices(tickers, answers, c, t) ==
    LET steps == price_loop(tickers, answers, c, t)
    IN  [out |-> "dict", status |-> 0, result |-> Dict(prices_of(steps)),
         gets |-> Len(steps), sets |-> AllSets(steps),
         provider |-> ProviderCalls(steps), trace |-> steps]

(***************************************************************************)
(* Prices family.                                                          *)
(***************************************************************************)
PriceAnswers ==
    { Info(TRUE, <<>>),
      Info(FALSE, <<>>),
      Info(FALSE, [f \in {"regularMarketPrice"} |-> Num(10)]),
      Info(FALSE, [f \in {"regularMarketPrice", "currentPrice"} |->
                     IF f = "currentPrice" THEN Num(5) ELSE Num(0)]) }

PriceLists ==
    { << <<"m">>, <<"a">> >>, << <<"m">>, <<"M">> >>, << <<"m">>, <<"m">> >> }

PricesCall ==
    \E tickers \in PriceLists :
        \E answers \in [1..Len(tickers) -> PriceAnswers] :
            Complete("get_bulk_current_prices",
                     [NoArgs EXCEPT !.tickers = tickers],
                     <<>>, <<"prices", tickers>>, None, answers,
                     get_bulk_current_prices(tickers, answers, cache, now),
                     TRUE, TRUE)

PriceDelays == {300}

PricesTick == Advance(PriceDelays)

NextPrices == PricesCall \/ PricesTick

SpecPrices == Init /\ [][NextPrices]_vars

(***************************************************************************)
(* C17: get_bulk_current_prices never raises; the keys of its result are   *)
(* exactly the input symbols; each value is the live market price, else    *)
(* the current price, of the symbol's info, or None; a symbol whose info   *)
(* lookup fails gets None and every other symbol gets what it would get    *)
(* if it were asked for alone.                                             *)
(***************************************************************************)
LiveElseCurrent(d) ==
    IF "regularMarketPrice" \in DOMAIN d /\ d["regularMarketPrice"].n # 0
    THEN d["regularMarketPrice"]
    ELSE IF "currentPrice" \in DOMAIN d THEN d["currentPrice"]
    ELSE None

\* what the symbol gets when it is the only one asked for
Alone(symbol, answer) ==
    LET k == S_ticker_info \o upper(symbol)
    IN  IF k \in DOMAIN last.before /\ last.at < last.before[k].expiry
           /\ DOMAIN last.before[k].value.x # {}
        THEN LiveElseCurrent(last.before[k].value.x)
        ELSE IF answer.raised \/ DOMAIN answer.d = {} THEN None
        ELSE LiveElseCurrent(answer.d)

C17_BulkPricesBestEffort ==
    last.op = "get_bulk_current_prices" =>
        LET ts == last.args.tickers
            res == last.result.x
        IN  /\ last.out = "dict"
            /\ last.status = 0
            /\ DOMAIN res = {ts[i] : i \in 1..Len(ts)}
            /\ \A i \in 1..Len(ts) :
                  (\A j \in (i + 1)..Len(ts) : ts[j] # ts[i]) =>
                     res[ts[i]] = IF last.trace[i].failed THEN None
                                  ELSE LiveElseCurrent(last.trace[i].info.x)
            /\ \A i \in 1..Len(ts) :
                  (\A j \in 1..Len(ts) : j # i => upper(ts[j]) # upper(ts[i])) =>
                     res[ts[i]] = Alone(ts[i], last.resp[i])

C17_Witness ==
    /\ last.op = "get_bulk_current_prices"
    /\ Len(last.args.tickers) = 2
    /\ upper(last.args.tickers[1]) # upper(last.args.tickers[2])
    /\ last.trace[1].failed
    /\ last.result.x[last.args.tickers[1]] = None
    /\ last.result.x[last.args.tickers[2]] = Num(10)

(***************************************************************************)
(* Cache keys of requests whose symbols or periods contain the separator.  *)
(* Neither history resolver validates its symbols or its period.           *)
(***************************************************************************)
KeyLists == { << <<"A">>, <<"B">> >>, << <<"A", ":", "B">> >> }

KeyPeriods == { <<"1", "y">> }

KeysBulkCall ==
    \E tickers \in KeyLists, period \in KeyPeriods, hist \in BulkResponses :
        LET key == bulk_key(tickers, period)
            cached == get_cached_data(cache, key, now, TRUE)
        IN  Complete("get_bulk_historical_data",
                     [NoArgs EXCEPT !.tickers = tickers, !.period = period],
                     key, <<"bulk", BagOf(tickers), period>>, cached, hist,
                     get_bulk_historical_data(tickers, period, cached, hist),
                     TRUE, TRUE)

\* (symbol, period) pairs
KeyHistories ==
    { << <<"M", ":", "1">>, <<"y">> >>, << <<"M">>, <<"1", ":", "y">> >> }

KeysHistoryCall ==
    \E sp \in KeyHistories, adjust \in BOOLEAN, hist \in HistResponses :
        LET ticker == sp[1]
            period == sp[2]
            key == historical_key(ticker, period, adjust)
            cached == get_cached_data(cache, key, now, TRUE)
        IN  Complete("get_historical_data",
                     [NoArgs EXCEPT !.ticker = ticker, !.period = period,
                                    !.adjust = adjust],
                     key, <<"history", upper(ticker), period, adjust>>,
                     cached, hist,
                     get_historical_data(ticker, period, adjust, cached, hist),
                     TRUE, TRUE)

NextKeys == KeysBulkCall \/ KeysHistoryCall

SpecKeys == Init /\ [][NextKeys]_vars

(***************************************************************************)
(* C19: the cache key determines the operation and its normalized          *)
(* parameters: two calls that differ in operation, symbol, symbol list or  *)
(* period never use the same key, also when a symbol or a period contains  *)
(* ":".                                                                    *)
(***************************************************************************)
Normalized(op, args) ==
    [op |-> op, ticker |-> upper(args.ticker),
     tickers |-> {upper(args.tickers[i]) : i \in 1..Len(args.tickers)},
     period |-> args.period, adjust |-> args.adjust]

C19_KeyDeterminesRequest ==
    ( /\ last.op \in {"get_historical_data", "get_bulk_historical_data"}
      /\ last.prior.op \in {"get_historical_data", "get_bulk_historical_data"}
      /\ last.key = last.prior.key ) =>
        Normalized(last.op, last.args)
            = Normalized(last.prior.op, last.prior.args)

====
